---- MODULE Spec2Model ----
(***************************************************************************)
(* The conversation workflow of the SQL assistant: the LangGraph state     *)
(* graph built by create_agent_graph (agent, tools, human_approval, with   *)
(* interrupt_before human_approval), its three routing functions, and the  *)
(* two HTTP handlers chat and approval that drive it over a per-thread     *)
(* checkpoint (message log + pending node).                                *)
(*                                                                         *)
(* Strings are sequences of tokens, so concatenation, startswith and the   *)
(* fenced-block regular expression are computed, not assumed.              *)
(* The handlers are "async def" without any await: the event loop runs one *)
(* handler at a time, so at most one request is in flight (pc # "idle").   *)
(* Inside a handler every graph step commits a checkpoint, so the steps    *)
(* of a run are separate transitions of the model.                         *)
(***************************************************************************)
EXTENDS Integers, Sequences, FiniteSets, TLC

VARIABLES
    log,      \* thread id -> checkpointed state["messages"]
    next,     \* thread id -> snapshot.next, the set of pending nodes
    pc,       \* position of the request in flight: idle, stream, auto_execute
    req,      \* the request in flight
    resp,     \* what the last finished handler returned
    executed, \* proposals <<thread, log index>> already run by execute_query_locally
    dbcalls,  \* the queries the last transition sent to the database
    probe,    \* input and result of a routing function applied on its own
    budget    \* messages the logs may hold together in this exploration

vars == <<log, next, pc, req, resp, executed, dbcalls, probe, budget>>

----------------------------------------------------------------------------
\* Bounds of the exploration.

\* Messages held by all thread logs together.
MaxMsgs == 4
\* Tool calls one AIMessage may carry.
MaxToolCalls == 2
\* Length of the message logs the routing functions are probed with.
MaxRouteLen == 3
\* Steps one graph.stream call may take.  No call passes "recursion_limit" in
\* its config, so the library's default (25) applies; the exploration keeps
\* it at the number of steps its message budget leaves room for.
recursion_limit == 3

----------------------------------------------------------------------------
\* Names and literals of the program.

Threads == {"T1", "T2"}
None == "None"
END == "__end__"
EXECUTE_TOOL == "execute_postgres_query"
LOAD_TOOL == "load_skill"
UNKNOWN_TOOL == "drop_table"
tools == {LOAD_TOOL, EXECUTE_TOOL}
ToolNames == tools \cup {UNKNOWN_TOOL}
\* Variant: the graph compiled without interrupt_before.
interrupt_before_none == {}
interrupt_before == {"human_approval"}

SYSTEM_PREFIX == "<SYSTEM:"
SYSTEM_DONE == <<SYSTEM_PREFIX, " Execution Completed Locally>">>
REJECTED_PREFIX == "Rejected. Feedback: "
\* The three back quotes that open or close a Markdown code block, and the
\* same followed by the word sql.
FENCE == "<fence>"
FENCE_SQL == "<fence>sql"
WS == " "

\* The texts a caller may send, one of them starting with the control prefix.
UserTexts == { <<"show 3 orders">>, <<SYSTEM_PREFIX, " stop>">> }
\* ApprovalRequest.feedback is optional: None and "" are both falsy.
NoFeedback == <<>>
Feedbacks == {NoFeedback, <<SYSTEM_PREFIX, " stop>">>}
\* The texts the model may answer with: a fenced query, and plain prose.
AgentTexts == { <<"Query:", FENCE_SQL, WS, "SELECT 1", WS, FENCE>>, <<"Hello">> }

----------------------------------------------------------------------------
\* Messages.

HumanMessage(c) == [type |-> "human", content |-> c, tool_calls |-> <<>>, name |-> None]
AIMessage(c, tc) == [type |-> "ai", content |-> c, tool_calls |-> tc, name |-> None]
ToolMessage(c, n) == [type |-> "tool", content |-> c, tool_calls |-> <<>>, name |-> n]

Last(s) == s[Len(s)]

\* Variant: a channel without reducer, where an update overwrites the value.
operator_replace(old, new) == new

\* AgentState.messages is Annotated[list, operator.add]: an update is appended.
operator_add(old, new) == old \o new

\* str.startswith on token strings.
startswith(s, p) == Len(s) > 0 /\ s[1] = p

\* Variant: the caller's text is written as it is.
RejectedFeedback_verbatim(text) == text

\* f"Rejected. Feedback: {text}"
RejectedFeedback(text) == <<REJECTED_PREFIX>> \o text

----------------------------------------------------------------------------
\* Routing functions of the graph.

\* hasattr(last_message, "tool_calls") and last_message.tool_calls
HasToolCalls(m) == m.type = "ai" /\ m.tool_calls # <<>>

IsExecuteResult(m) == m.type = "tool" /\ m.name = EXECUTE_TOOL

\* Variant: without the check of the second-to-last message.
should_continue_no_summary(messages) ==
    IF HasToolCalls(Last(messages)) THEN "tools" ELSE "human_approval"

\* Variant: without the check of the last message's tool calls.
should_continue_no_tools(messages) ==
    IF Len(messages) > 1 /\ IsExecuteResult(messages[Len(messages) - 1]) THEN END
    ELSE "human_approval"

should_continue(messages) ==
    IF HasToolCalls(Last(messages)) THEN "tools"
    ELSE IF Len(messages) > 1 /\ IsExecuteResult(messages[Len(messages) - 1]) THEN END
    ELSE "human_approval"

\* Variant: every tool result returns to the agent.
route_tool_output_always_agent(messages) == "agent"

\* Variant: only a query that succeeded ends the run.
route_tool_output_on_success(messages) ==
    IF IsExecuteResult(Last(messages)) /\ Last(messages).content[1] # "Error executing query: "
    THEN END ELSE "agent"

route_tool_output(messages) ==
    IF IsExecuteResult(Last(messages)) THEN END ELSE "agent"

\* Variant: every resume ends the run.
check_approval_outcome_always_end(messages) == END

\* Variant: the control prefix is not looked at.
check_approval_outcome_any_text(messages) ==
    IF Last(messages).type = "human" THEN "agent" ELSE END

\* Variant: the content is compared with the prefix instead of startswith.
check_approval_outcome_exact(messages) ==
    IF Last(messages).type = "human"
    THEN IF Last(messages).content = <<SYSTEM_PREFIX>> THEN END ELSE "agent"
    ELSE END

check_approval_outcome(messages) ==
    IF Last(messages).type = "human"
    THEN IF startswith(Last(messages).content, SYSTEM_PREFIX) THEN END ELSE "agent"
    ELSE END

\* A conditional edge's result as the set of pending nodes.
Pending(route) == IF route = END THEN {} ELSE {route}

----------------------------------------------------------------------------
\* Extraction of the proposed query: re.search(r"```(?:sql)?(.*?)```", content,
\* re.DOTALL), then group(1).strip(), else content.strip().

IsFence(tok) == tok \in {FENCE, FENCE_SQL}

\* Positions where the three back quotes occur.
FencePositions(content) == {i \in 1..Len(content) : IsFence(content[i])}

Smallest(S) == CHOOSE i \in S : \A j \in S : i <= j

\* The regular expression matches from the first fence to the one after it.
has_sql_block(content) == Cardinality(FencePositions(content)) >= 2

\* str.strip on token strings: leading and trailing blanks are dropped.
strip(s) ==
    LET keep == {i \in 1..Len(s) : s[i] # WS} IN
    IF keep = {} THEN <<>>
    ELSE SubSeq(s, Smallest(keep), CHOOSE i \in keep : \A j \in keep : j <= i)

extract_query(content) ==
    IF has_sql_block(content)
    THEN LET open == Smallest(FencePositions(content))
             close == Smallest(FencePositions(content) \ {open})
         IN strip(SubSeq(content, open + 1, close - 1))
    ELSE strip(content)

----------------------------------------------------------------------------
\* The tools and the ToolNode.

QUERY_ROWS == <<"| col |", "| --- |", "| row |">>
QUERY_ERROR == <<"Error executing query: ", "e">>
SKILL_CONTENT == <<"schema">>
SKILL_NOT_FOUND == <<"Skill '", "x", "' not found.">>
QUERY_EMPTY == <<"Query executed successfully per row count: 0">>
SKILL_ERROR == <<"Error loading skill: ", "e">>

\* What happens inside a tool body: it finds something, it finds nothing, or
\* one of its calls (repository, connection, cursor) raises.
Outcomes == {"ok", "empty", "raise"}
INVALID_TOOL == <<"Error: ", UNKNOWN_TOOL, " is not a valid tool">>

\* Variant: without the except clause's error text.
execute_postgres_query_swallow(outcome) ==
    IF outcome = "empty" THEN QUERY_EMPTY ELSE QUERY_ROWS

\* execute_postgres_query returns the formatted rows, the no-rows text, or,
\* from its except clause, the error as text.
execute_postgres_query(outcome) ==
    IF outcome = "raise" THEN QUERY_ERROR
    ELSE IF outcome = "empty" THEN QUERY_EMPTY
    ELSE QUERY_ROWS

\* load_skill returns the content, a not-found text, or, from its except
\* clause, the error as text.
load_skill(outcome) ==
    IF outcome = "raise" THEN SKILL_ERROR
    ELSE IF outcome = "empty" THEN SKILL_NOT_FOUND
    ELSE SKILL_CONTENT

\* Variant: a name outside the registry is not detected.
run_tool_unchecked(name, ok) ==
    IF name = EXECUTE_TOOL THEN ToolMessage(execute_postgres_query(ok), name)
    ELSE ToolMessage(load_skill(ok), name)

\* One tool call: the ToolMessage carries the requested name.
run_tool(name, ok) ==
    IF name = EXECUTE_TOOL THEN ToolMessage(execute_postgres_query(ok), name)
    ELSE IF name = LOAD_TOOL THEN ToolMessage(load_skill(ok), name)
    ELSE ToolMessage(INVALID_TOOL, name)

\* ToolNode: one ToolMessage per tool call of the last AIMessage, in call order.
ToolNode(messages, oks) ==
    [i \in 1..Len(Last(messages).tool_calls) |->
        run_tool(Last(messages).tool_calls[i], oks[i])]

\* What happens inside the tool bodies of one tools step, one outcome per call.
OutcomeSeqs == UNION {[1..n -> Outcomes] : n \in 1..MaxToolCalls}

\* The tool-call lists the model may request.
ToolCallSeqs == UNION {[1..n -> ToolNames] : n \in 1..MaxToolCalls}

\* The answers of llm_with_tools.invoke: text without tool calls, or tool calls.
LLMResponses ==
    {AIMessage(c, <<>>) : c \in AgentTexts} \cup {AIMessage(<<>>, tc) : tc \in ToolCallSeqs}

----------------------------------------------------------------------------
\* Checkpoint operations of the compiled graph.

\* Variant: snapshot.next alone is tested.
IsWaiting_any(pending) == pending # {}

\* Variant: every request is served from one and the same checkpoint.
thread_key_shared(id) == "T1"

\* config = {"configurable": {"thread_id": thread_id}}: MemorySaver keeps one
\* checkpoint per thread id, and every get_state, update_state and stream of
\* a request is given the request's config.
thread_key(id) == id

\* snapshot.next and "human_approval" in snapshot.next
IsWaiting(pending) == "human_approval" \in pending

\* graph.update_state(config, {"messages": values}) on a thread interrupted
\* before human_approval: the update is written as the node that ran last,
\* agent, so the reducer appends it and agent's conditional edge is evaluated
\* on the updated log.
update_state(messages, values) ==
    LET new == operator_add(messages, values) IN
    [messages |-> new, next |-> Pending(should_continue(new))]

\* process_run: the status reported from the final snapshot.
StatusOf(pending) == IF IsWaiting(pending) THEN "approval_required" ELSE "done"

----------------------------------------------------------------------------
\* State of the service.

NoSnapshot == [messages |-> <<>>, next |-> {}]
NoReq == [op |-> "none", thread |-> None, auto |-> FALSE, then |-> "none",
          resuming |-> FALSE, ticks |-> 0, query |-> <<>>, text |-> <<>>,
          outcomes |-> <<>>, before |-> NoSnapshot]
NoResp == [kind |-> "none", op |-> "none", thread |-> None, status |-> "none",
           response |-> <<>>]
NoProbe == [fn |-> "none", messages |-> <<>>, result |-> "none"]

RECURSIVE SumLen(_, _)
SumLen(l, S) ==
    IF S = {} THEN 0
    ELSE LET t == CHOOSE x \in S : TRUE IN Len(l[t]) + SumLen(l, S \ {t})

\* The exploration stops appending once MaxMsgs messages are stored.
Room(n) == SumLen(log, Threads) + n <= budget

\* MemorySaver starts empty: get_state of an unknown thread has no messages
\* and no pending node.
Init ==
    /\ log = [t \in Threads |-> <<>>]
    /\ next = [t \in Threads |-> {}]
    /\ pc = "idle"
    /\ req = NoReq
    /\ resp = NoResp
    /\ executed = {}
    /\ dbcalls = {}
    /\ probe = NoProbe
    /\ budget = MaxMsgs

\* graph.stream(inputs, config): a new input is appended through the reducer
\* and the graph is entered at START -> agent, whatever was pending.
stream_input(messages, inputs) ==
    [messages |-> operator_add(messages, inputs), next |-> {"agent"}]

\* Variant: the handlers run in a thread pool, a request is handled whenever
\* it arrives.
LoopFree_threadpool == TRUE

\* chat and approval are coroutines ("async def") that never await: the event
\* loop of the single uvicorn process runs one handler from its first line to
\* its return before it starts the next one.
LoopFree == pc = "idle"

\* ChatResponse(thread_id, response, status)
ChatResponse(op, t, text, status) ==
    [kind |-> "ok", op |-> op, thread |-> t, status |-> status, response |-> text]

\* One call of execute_query_locally for the last message of thread t.
DbCall(via, t, auto, ok) ==
    [via |-> via, thread |-> t, idx |-> Len(log[t]),
     query |-> extract_query(Last(log[t]).content), ok |-> ok, auto |-> auto,
     waiting |-> IsWaiting(next[t])]

----------------------------------------------------------------------------
\* POST /chat, up to the call of graph.stream inside process_run.
Chat(id, text, auto) ==
    LET t == thread_key(id) IN
    /\ LoopFree
    /\ Room(1)
    /\ LET cp == IF IsWaiting(next[t])
                 THEN update_state(log[t], <<HumanMessage(RejectedFeedback(text))>>)
                 ELSE stream_input(log[t], <<HumanMessage(text)>>)
       IN /\ log' = [log EXCEPT ![t] = cp.messages]
          /\ next' = [next EXCEPT ![t] = cp.next]
    /\ req' = [op |-> "chat", thread |-> id, auto |-> auto, then |-> "process_run",
               resuming |-> IsWaiting(next[t]), ticks |-> 0, query |-> <<>>,
               text |-> text, outcomes |-> <<>>,
               before |-> [messages |-> log[t], next |-> next[t]]]
    /\ pc' = "stream"
    /\ resp' = NoResp
    /\ dbcalls' = {}
    /\ UNCHANGED <<executed, probe, budget>>

\* The approved query ran: the control message is written with update_state and
\* the graph is resumed with graph.stream(None, config).
CloseOut(id, op, auto, then) ==
    LET t == thread_key(id) IN
    /\ Room(1)
    /\ LET cp == update_state(log[t], <<HumanMessage(SYSTEM_DONE)>>)
       IN /\ log' = [log EXCEPT ![t] = cp.messages]
          /\ next' = [next EXCEPT ![t] = cp.next]
    /\ req' = [op |-> op, thread |-> id, auto |-> auto, then |-> then,
               resuming |-> TRUE, ticks |-> 0,
               query |-> extract_query(Last(log[t]).content), text |-> req.text,
               outcomes |-> <<>>,
               before |-> IF pc = "idle" THEN [messages |-> log[t], next |-> next[t]]
                          ELSE req.before]
    /\ pc' = "stream"
    /\ resp' = NoResp
    /\ executed' = executed \cup {<<t, Len(log[t])>>}

\* POST /approval, up to its return or to the call of graph.stream.
Approval(id, decision, feedback, ok) ==
    LET t == thread_key(id) IN
    /\ LoopFree
    /\ UNCHANGED <<probe, budget>>
    /\ IF ~IsWaiting(next[t])
       THEN \* HTTPException(400, "Conversation is not waiting for approval.")
            /\ resp' = [kind |-> "http400", op |-> "approval", thread |-> id,
                        status |-> "none", response |-> <<>>]
            /\ dbcalls' = {}
            /\ UNCHANGED <<log, next, pc, req, executed>>
       ELSE IF decision = "approve"
       THEN /\ dbcalls' = {DbCall("approve", t, FALSE, ok)}
            /\ IF ok
               THEN CloseOut(id, "approval", FALSE, "approve_result")
               ELSE /\ resp' = ChatResponse("approval", id,
                                            <<"Error executing query: ", "e">>, "done")
                    /\ UNCHANGED <<log, next, pc, req, executed>>
       ELSE /\ Room(1)
            /\ LET fb == IF feedback = NoFeedback THEN <<"Rejected.">> ELSE feedback
                   cp == update_state(log[t], <<HumanMessage(RejectedFeedback(fb))>>)
               IN /\ log' = [log EXCEPT ![t] = cp.messages]
                  /\ next' = [next EXCEPT ![t] = cp.next]
            /\ req' = [op |-> "approval", thread |-> id, auto |-> FALSE,
                       then |-> "process_run", resuming |-> TRUE, ticks |-> 0,
                       query |-> <<>>, text |-> feedback, outcomes |-> <<>>,
                       before |-> [messages |-> log[t], next |-> next[t]]]
            /\ pc' = "stream"
            /\ resp' = NoResp
            /\ dbcalls' = {}
            /\ UNCHANGED executed

----------------------------------------------------------------------------
\* The steps of graph.stream for the request in flight.  Each node step writes
\* a checkpoint: the node's update through the reducer and the nodes its
\* conditional edge selects.

\* interrupt_before: the run stops before a listed node, except at the first
\* step of a run resumed with input None, which runs the node it stopped before.
Interrupted(t) ==
    /\ next[t] \cap interrupt_before # {}
    /\ ~(req.resuming /\ req.ticks = 0)

\* Variant: the number of steps of a run is not limited.
StepsLeft_unlimited == TRUE

\* The run in flight has not used up its steps.
StepsLeft == req.ticks < recursion_limit

CanRun(node) ==
    /\ pc = "stream"
    /\ node \in next[thread_key(req.thread)]
    /\ ~Interrupted(thread_key(req.thread))
    /\ StepsLeft

\* agent_node: the model's answer is appended, then should_continue routes.
AgentNode(response) ==
    /\ CanRun("agent")
    /\ Room(1)
    /\ LET t == thread_key(req.thread)
           new == operator_add(log[t], <<response>>)
       IN /\ log' = [log EXCEPT ![t] = new]
          /\ next' = [next EXCEPT ![t] = Pending(should_continue(new))]
    /\ req' = [req EXCEPT !.ticks = @ + 1, !.outcomes = <<>>]
    /\ dbcalls' = {}
    /\ UNCHANGED <<pc, resp, executed, probe, budget>>

\* llm_with_tools.invoke raises: the exception leaves graph.stream with the
\* checkpoint as it was before the node.  Only the auto-execute block of chat
\* catches it.
AgentRaise ==
    /\ CanRun("agent")
    /\ resp' = IF req.then = "auto_result"
               THEN ChatResponse("chat", req.thread,
                                 <<"System Error during auto-execution: ", "e">>, "done")
               ELSE [kind |-> "error", op |-> req.op, thread |-> req.thread,
                     status |-> "none", response |-> <<>>]
    /\ pc' = "idle"
    /\ req' = NoReq
    /\ dbcalls' = {}
    /\ UNCHANGED <<log, next, executed, probe, budget>>

\* A node is still to run when the steps of the run are used up: graph.stream
\* raises GraphRecursionError, with the checkpoint as the last step left it.
GraphRecursionError ==
    /\ pc = "stream"
    /\ next[thread_key(req.thread)] # {}
    /\ ~Interrupted(thread_key(req.thread))
    /\ ~StepsLeft
    /\ resp' = IF req.then = "auto_result"
               THEN ChatResponse("chat", req.thread,
                                 <<"System Error during auto-execution: ", "e">>, "done")
               ELSE [kind |-> "error", op |-> req.op, thread |-> req.thread,
                     status |-> "none", response |-> <<"GraphRecursionError">>]
    /\ pc' = "idle"
    /\ req' = NoReq
    /\ dbcalls' = {}
    /\ UNCHANGED <<log, next, executed, probe, budget>>

\* tools (ToolNode): every tool call of the last AIMessage is run, then
\* route_tool_output routes.
ToolsNode(oks) ==
    /\ CanRun("tools")
    /\ LET t == thread_key(req.thread)
           calls == Last(log[t]).tool_calls
           new == operator_add(log[t], ToolNode(log[t], oks))
       IN /\ Room(Len(calls))
          /\ Len(oks) = Len(calls)
          /\ log' = [log EXCEPT ![t] = new]
          /\ next' = [next EXCEPT ![t] = Pending(route_tool_output(new))]
          /\ dbcalls' = {[via |-> "tool", thread |-> t, idx |-> Len(log[t]),
                          query |-> <<"SELECT 1">>, ok |-> oks[i] # "raise",
                          auto |-> req.auto,
                          waiting |-> FALSE] :
                         i \in {j \in 1..Len(calls) : calls[j] = EXECUTE_TOOL}}
          /\ req' = [req EXCEPT !.ticks = @ + 1,
                                !.outcomes = [i \in 1..Len(calls) |->
                                                IF calls[i] \in tools THEN oks[i]
                                                ELSE "none"]]
    /\ UNCHANGED <<pc, resp, executed, probe, budget>>

\* human_approval_node is "pass": no update, then check_approval_outcome routes.
HumanApprovalNode ==
    /\ CanRun("human_approval")
    /\ LET t == thread_key(req.thread)
       IN next' = [next EXCEPT ![t] = Pending(check_approval_outcome(log[t]))]
    /\ req' = [req EXCEPT !.ticks = @ + 1]
    /\ dbcalls' = {}
    /\ UNCHANGED <<log, pc, resp, executed, probe, budget>>

\* graph.stream returns: nothing is pending, or the run is interrupted.  What
\* follows is the rest of the handler up to its return, or up to the local
\* execution of chat's auto-execute block.
StreamEnd ==
    /\ pc = "stream"
    /\ next[thread_key(req.thread)] = {} \/ Interrupted(thread_key(req.thread))
    /\ LET t == thread_key(req.thread)
           status == StatusOf(next[t])
       IN IF req.then = "process_run"
          THEN IF req.op = "chat" /\ req.auto /\ status = "approval_required"
               THEN /\ pc' = "auto_execute"
                    /\ req' = [req EXCEPT !.query = extract_query(Last(log[t]).content)]
                    /\ resp' = resp
               ELSE /\ pc' = "idle"
                    /\ req' = NoReq
                    /\ resp' = ChatResponse(req.op, req.thread, Last(log[t]).content,
                                            status)
          ELSE /\ pc' = "idle"
               /\ req' = NoReq
               /\ resp' = ChatResponse(req.op, req.thread,
                                       <<IF req.then = "auto_result"
                                         THEN "**Auto Execution Result**:"
                                         ELSE "**Execution Result**:">> \o QUERY_ROWS,
                                       "done")
    /\ dbcalls' = {}
    /\ UNCHANGED <<log, next, executed, probe, budget>>

\* Variant: the error of the local execution is not looked at.
AutoExecute_ignore_error(ok) ==
    /\ pc = "auto_execute"
    /\ dbcalls' = {DbCall("auto", thread_key(req.thread), TRUE, ok)}
    /\ UNCHANGED <<probe, budget>>
    /\ CloseOut(req.thread, "chat", TRUE, "auto_result")

\* chat, AUTO EXECUTE LOGIC: the proposed query is run locally.
AutoExecute(ok) ==
    /\ pc = "auto_execute"
    /\ dbcalls' = {DbCall("auto", thread_key(req.thread), TRUE, ok)}
    /\ UNCHANGED <<probe, budget>>
    /\ IF ok
       THEN CloseOut(req.thread, "chat", TRUE, "auto_result")
       ELSE /\ resp' = ChatResponse("chat", req.thread,
                                    <<"Error executing query (Auto-Mode): ", "e">>, "done")
            /\ pc' = "idle"
            /\ req' = NoReq
            /\ UNCHANGED <<log, next, executed>>

Decisions == {"approve", "reject"}

Next ==
    \/ \E t \in Threads, text \in UserTexts, auto \in BOOLEAN : Chat(t, text, auto)
    \/ \E t \in Threads, d \in Decisions, fb \in Feedbacks, ok \in BOOLEAN :
          Approval(t, d, fb, ok)
    \/ \E r \in LLMResponses : AgentNode(r)
    \/ AgentRaise
    \/ GraphRecursionError
    \/ \E oks \in OutcomeSeqs : ToolsNode(oks)
    \/ HumanApprovalNode
    \/ StreamEnd
    \/ \E ok \in BOOLEAN : AutoExecute(ok)

Spec == Init /\ [][Next]_vars

\* The same service, explored with room for one more message: a call, a run
\* that uses up its steps, and the call after it.
InitRetry ==
    /\ log = [t \in Threads |-> <<>>]
    /\ next = [t \in Threads |-> {}]
    /\ pc = "idle"
    /\ req = NoReq
    /\ resp = NoResp
    /\ executed = {}
    /\ dbcalls = {}
    /\ probe = NoProbe
    /\ budget = MaxMsgs + 1

SpecRetry == InitRetry /\ [][Next]_vars

----------------------------------------------------------------------------
\* The routing functions applied on their own to arbitrary message logs.

ProbeMsgs ==
    {HumanMessage(c) : c \in UserTexts \cup {SYSTEM_DONE}}
    \cup {HumanMessage(RejectedFeedback(c)) : c \in UserTexts}
    \cup {AIMessage(c, <<>>) : c \in AgentTexts}
    \cup {AIMessage(<<>>, <<n>>) : n \in ToolNames}
    \cup {run_tool(n, o) : n \in ToolNames, o \in Outcomes}

ProbeLogs == UNION {[1..n -> ProbeMsgs] : n \in 1..MaxRouteLen}

InitRouting ==
    /\ log = [t \in Threads |-> <<>>]
    /\ next = [t \in Threads |-> {}]
    /\ pc = "idle"
    /\ req = NoReq
    /\ resp = NoResp
    /\ executed = {}
    /\ dbcalls = {}
    /\ probe \in {[fn |-> "input", messages |-> m, result |-> "none"] : m \in ProbeLogs}
    /\ budget = MaxMsgs

Apply(fn, result) ==
    /\ probe.fn = "input"
    /\ probe' = [fn |-> fn, messages |-> probe.messages, result |-> result]
    /\ UNCHANGED <<log, next, pc, req, resp, executed, dbcalls, budget>>

ApplyShouldContinue == Apply("should_continue", should_continue(probe.messages))
ApplyRouteToolOutput == Apply("route_tool_output", route_tool_output(probe.messages))
ApplyCheckApprovalOutcome ==
    Apply("check_approval_outcome", check_approval_outcome(probe.messages))

NextRouting ==
    \/ ApplyShouldContinue
    \/ ApplyRouteToolOutput
    \/ ApplyCheckApprovalOutcome

SpecRouting == InitRouting /\ [][NextRouting]_vars

----------------------------------------------------------------------------
\* SkillRepository on its own, applied to arbitrary contents of the skills
\* directory.

\* Entry names, as token strings: two skills, a cache directory, and a name
\* that is only ever asked for.
SkillNames == { <<"sales_analytics">>, <<"inventory_management">>, <<"__", "pycache__">> }
AskedNames == SkillNames \cup { <<"non_existent">> }

\* A file of a skill directory is missing, or holds a text.
Missing == "missing"
FileTexts == { <<"CREATE TABLE", WS>>, <<WS>> }
Files == {[exists |-> FALSE, text |-> <<>>]}
           \cup {[exists |-> TRUE, text |-> x] : x \in FileTexts}

\* An entry of the skills directory: nothing, a plain file (as repository.py
\* is), or a directory with or without description.txt and content.md.
Entries ==
    {[kind |-> k, description |-> [exists |-> FALSE, text |-> <<>>],
      content |-> [exists |-> FALSE, text |-> <<>>]] : k \in {Missing, "file"}}
    \cup {[kind |-> "dir", description |-> d, content |-> c] : d \in Files, c \in Files}

\* self.skills_dir / skill_name
EntryOf(fs, name) ==
    IF name \in DOMAIN fs THEN fs[name]
    ELSE [kind |-> Missing, description |-> [exists |-> FALSE, text |-> <<>>],
          content |-> [exists |-> FALSE, text |-> <<>>]]

\* list_skills: the directories that do not start with "__" and hold a
\* description.txt, without their content.
list_skills(fs) ==
    {[name |-> n, description |-> strip(fs[n].description.text), content |-> <<>>] :
        n \in {m \in DOMAIN fs : /\ fs[m].kind = "dir"
                                  /\ ~startswith(m, "__")
                                  /\ fs[m].description.exists}}

\* Variant: content.md is not looked for.
get_skill_any_content(fs, skill_name) ==
    LET e == EntryOf(fs, skill_name) IN
    IF e.kind # "dir" THEN {}
    ELSE IF ~e.description.exists THEN {}
    ELSE {[name |-> skill_name, description |-> strip(e.description.text),
           content |-> strip(e.content.text)]}

\* get_skill: None (the empty set) or the skill with both texts loaded.
get_skill(fs, skill_name) ==
    LET e == EntryOf(fs, skill_name) IN
    IF e.kind # "dir" THEN {}
    ELSE IF ~e.description.exists \/ ~e.content.exists THEN {}
    ELSE {[name |-> skill_name, description |-> strip(e.description.text),
           content |-> strip(e.content.text)]}

InitSkills ==
    /\ log = [t \in Threads |-> <<>>]
    /\ next = [t \in Threads |-> {}]
    /\ pc = "idle"
    /\ req = NoReq
    /\ resp = NoResp
    /\ executed = {}
    /\ dbcalls = {}
    /\ budget = MaxMsgs
    /\ probe \in {[fn |-> "input", fs |-> f, name |-> n, result |-> {}] :
                    f \in [SkillNames -> Entries], n \in AskedNames}

ApplyGetSkill ==
    /\ probe.fn = "input"
    /\ probe' = [probe EXCEPT !.fn = "get_skill",
                              !.result = get_skill(probe.fs, probe.name)]
    /\ UNCHANGED <<log, next, pc, req, resp, executed, dbcalls, budget>>

ApplyListSkills ==
    /\ probe.fn = "input"
    /\ probe' = [probe EXCEPT !.fn = "list_skills", !.result = list_skills(probe.fs)]
    /\ UNCHANGED <<log, next, pc, req, resp, executed, dbcalls, budget>>

NextSkills ==
    \/ ApplyGetSkill
    \/ ApplyListSkills

SpecSkills == InitSkills /\ [][NextSkills]_vars

----------------------------------------------------------------------------
\* The connection pool on its own: get_db_connection called by concurrent
\* callers (the tool calls of one tools step run in ToolNode's thread pool;
\* a handler's local execution is a single caller).

\* ThreadedConnectionPool(minconn=1, maxconn=20, ...); maxconn is scaled so
\* that the pool can be exhausted.
minconn == 1
maxconn == 2
\* Callers that may be inside get_db_connection at the same time, and the
\* number of calls explored.
MaxCallers == 3
MaxTakes == 4

Callers == 1..MaxCallers
Conns == 1..maxconn
NoConn == 0
\* How the with-block ends: normally, through an exception of the query, or
\* through an exception that leaves the connection closed.
BodyOutcomes == {"ok", "raise", "broken"}

\* The pool at start-up (DatabasePool.initialize): minconn idle connections.
NewPool == [idle |-> 1..minconn, used |-> {}, error |-> FALSE]

\* pool.getconn(): an idle connection if there is one, else a new one unless
\* maxconn are in use (PoolError) or connecting fails; conn is NoConn when
\* the call raises.
getconn(pool, connects) ==
    IF pool.idle # {}
    THEN LET c == CHOOSE x \in pool.idle : TRUE
         IN [pool |-> [pool EXCEPT !.idle = @ \ {c}, !.used = @ \cup {c}], conn |-> c]
    ELSE IF Cardinality(pool.used) = maxconn \/ ~connects
    THEN [pool |-> pool, conn |-> NoConn]
    ELSE LET c == CHOOSE x \in Conns : x \notin pool.used
         IN [pool |-> [pool EXCEPT !.used = @ \cup {c}], conn |-> c]

\* pool.putconn(conn): a connection the pool did not hand out is refused
\* (PoolError); else it is no longer in use, and it is kept idle if it is
\* open and fewer than minconn are idle, and closed otherwise.
putconn(pool, conn, closed) ==
    IF conn \notin pool.used THEN [pool EXCEPT !.error = TRUE]
    ELSE [pool EXCEPT !.used = @ \ {conn},
                      !.idle = IF Cardinality(@) < minconn /\ ~closed
                               THEN @ \cup {conn} ELSE @]

\* Variant: putconn after the yield, without try/finally.
get_db_connection_exit_no_finally(pool, conn, outcome) ==
    IF outcome = "ok" THEN putconn(pool, conn, FALSE) ELSE pool

\* get_db_connection, after the yield: "finally: pool.putconn(conn)".
get_db_connection_exit(pool, conn, outcome) ==
    putconn(pool, conn, outcome = "broken")

InitPool ==
    /\ log = [t \in Threads |-> <<>>]
    /\ next = [t \in Threads |-> {}]
    /\ pc = "idle"
    /\ req = NoReq
    /\ resp = NoResp
    /\ executed = {}
    /\ dbcalls = {}
    /\ budget = MaxMsgs
    /\ probe = [fn |-> "pool", pool |-> NewPool, takes |-> 0, puts |-> 0,
                w |-> [c \in Callers |-> [pc |-> "out", conn |-> NoConn,
                                          last |-> "none"]]]

\* "with get_db_connection() as conn": up to the yield.  When getconn raises,
\* the caller's except clause turns the exception into its error text.
EnterWith(c, connects) ==
    /\ probe.w[c].pc = "out"
    /\ probe.takes < MaxTakes
    /\ LET got == getconn(probe.pool, connects)
       IN probe' = IF got.conn = NoConn
                   THEN [probe EXCEPT !.w[c].last = "no connection"]
                   ELSE [probe EXCEPT !.pool = got.pool,
                                      !.takes = @ + 1,
                                      !.w[c] = [pc |-> "body", conn |-> got.conn,
                                                last |-> @.last]]
    /\ UNCHANGED <<log, next, pc, req, resp, executed, dbcalls, budget>>

\* The with-block (cursor, execute, fetchall, commit) ends and the context
\* manager is left.
ExitWith(c, outcome) ==
    /\ probe.w[c].pc = "body"
    /\ probe' = [probe EXCEPT
                   !.pool = get_db_connection_exit(@, probe.w[c].conn, outcome),
                   !.puts = @ + 1,
                   !.w[c] = [pc |-> "out", conn |-> NoConn, last |-> outcome]]
    /\ UNCHANGED <<log, next, pc, req, resp, executed, dbcalls, budget>>

NextPool ==
    \/ \E c \in Callers, connects \in BOOLEAN : EnterWith(c, connects)
    \/ \E c \in Callers, outcome \in BodyOutcomes : ExitWith(c, outcome)

SpecPool == InitPool /\ [][NextPool]_vars

----------------------------------------------------------------------------
\* DatabasePool.initialize and get_pool, called by concurrent callers.  The
\* API process initializes the pool in its lifespan before it serves a
\* request; the interactive session (main.py) does not, so there the first
\* calls of get_pool come from the tool calls of a tools step, which ToolNode
\* runs in a thread pool.  No lock is held between the test of cls._pool and
\* its assignment, so every statement is a step of its own.

\* cls._pool = None
NoPool == 0

InitDatabasePool ==
    /\ log = [t \in Threads |-> <<>>]
    /\ next = [t \in Threads |-> {}]
    /\ pc = "idle"
    /\ req = NoReq
    /\ resp = NoResp
    /\ executed = {}
    /\ dbcalls = {}
    /\ budget = MaxMsgs
    /\ \E startup \in BOOLEAN :
          probe = [fn |-> "DatabasePool",
                   cls_pool |-> IF startup THEN 1 ELSE NoPool,
                   created |-> IF startup THEN 1 ELSE 0,
                   w |-> [c \in Callers |-> [pc |-> "out", got |-> NoPool,
                                             last |-> "none"]]]

\* get_pool, "if cls._pool is None: cls.initialize()".
GetPool(c) ==
    /\ probe.w[c].pc = "out"
    /\ probe' = [probe EXCEPT !.w[c].pc = IF probe.cls_pool = NoPool
                                          THEN "initialize" ELSE "return"]
    /\ UNCHANGED <<log, next, pc, req, resp, executed, dbcalls, budget>>

\* initialize, "if cls._pool is None:"; otherwise the call does nothing.
Initialize(c) ==
    /\ probe.w[c].pc = "initialize"
    /\ probe' = [probe EXCEPT !.w[c].pc = IF probe.cls_pool = NoPool
                                          THEN "construct" ELSE "return"]
    /\ UNCHANGED <<log, next, pc, req, resp, executed, dbcalls, budget>>

\* initialize, "cls._pool = ThreadedConnectionPool(...)": the constructor
\* connects to the database; when it raises, the exception leaves get_pool.
Construct(c, connects) ==
    /\ probe.w[c].pc = "construct"
    /\ probe' = IF connects
                THEN [probe EXCEPT !.created = @ + 1,
                                   !.cls_pool = probe.created + 1,
                                   !.w[c].pc = "return",
                                   !.w[c].last = "created"]
                ELSE [probe EXCEPT !.w[c].pc = "out", !.w[c].last = "raised"]
    /\ UNCHANGED <<log, next, pc, req, resp, executed, dbcalls, budget>>

\* get_pool, "return cls._pool".
ReturnPool(c) ==
    /\ probe.w[c].pc = "return"
    /\ probe' = [probe EXCEPT !.w[c].pc = "out", !.w[c].got = probe.cls_pool]
    /\ UNCHANGED <<log, next, pc, req, resp, executed, dbcalls, budget>>

NextDatabasePool ==
    \/ \E c \in Callers : GetPool(c)
    \/ \E c \in Callers : Initialize(c)
    \/ \E c \in Callers, connects \in BOOLEAN : Construct(c, connects)
    \/ \E c \in Callers : ReturnPool(c)

SpecDatabasePool == InitDatabasePool /\ [][NextDatabasePool]_vars

----------------------------------------------------------------------------
\* Properties.

IsPrefix(a, b) == Len(a) <= Len(b) /\ SubSeq(b, 1, Len(a)) = a

\* A node of the graph runs in this step.
NodeRuns == pc = "stream" /\ pc' = "stream" /\ req'.ticks = req.ticks + 1

\* The run in flight has itself routed to human_approval.
RoutedToApproval ==
    pc = "stream" /\ req.ticks > 0 /\ "human_approval" \in next[req.thread]

\* C1: whenever a run routes to HumanApproval the invocation stops there: the
\* checkpoint keeps pending node HumanApproval with the AgentMessage just
\* produced as its last message, and the HumanApproval node (or any later
\* node) runs only as the first step of a separate run resumed with no input.
C1_InterruptStopsRun ==
    /\ [](RoutedToApproval =>
            /\ next[req.thread] = {"human_approval"}
            /\ Last(log[req.thread]).type = "ai")
    /\ [][/\ RoutedToApproval => (pc' # "stream" /\ log' = log /\ next' = next)
          /\ (NodeRuns /\ "human_approval" \in next[req.thread])
                => (req.resuming /\ req.ticks = 0)]_vars

C1_Witness ==
    /\ pc = "idle"
    /\ resp.kind = "ok"
    /\ resp.status = "approval_required"
    /\ next[resp.thread] = {"human_approval"}
    /\ Last(log[resp.thread]).type = "ai"

\* C2: after the Agent node, an AgentMessage with tool requests routes to
\* ToolDispatch; otherwise a second-to-last ToolResult of
\* execute_postgres_query makes the run terminal; otherwise the next node is
\* HumanApproval.
C2_RoutingAfterAgent ==
    (probe.fn = "should_continue" /\ Last(probe.messages).type = "ai") =>
        LET m == probe.messages
            n == Len(m)
        IN probe.result =
            IF Len(m[n].tool_calls) >= 1 THEN "tools"
            ELSE IF n >= 2 /\ m[n - 1].type = "tool"
                           /\ m[n - 1].name = "execute_postgres_query"
                 THEN END
            ELSE "human_approval"

C2_Witness ==
    /\ probe.fn = "should_continue"
    /\ Last(probe.messages).type = "ai"
    /\ probe.result = END

\* C3: after the ToolDispatch node, a last ToolResult of
\* execute_postgres_query makes the run terminal; any other ToolResult routes
\* back to Agent.
C3_RoutingAfterTools ==
    (probe.fn = "route_tool_output" /\ Last(probe.messages).type = "tool") =>
        probe.result =
            IF Last(probe.messages).name = "execute_postgres_query" THEN END ELSE "agent"

C3_Witness ==
    /\ probe.fn = "route_tool_output"
    /\ Last(probe.messages).type = "tool"
    /\ Last(probe.messages).name = "load_skill"
    /\ probe.result = "agent"

\* C4: on resume from HumanApproval, a UserMessage whose text begins with
\* "<SYSTEM:" makes the run terminal (no Agent invocation); any other
\* UserMessage text routes to Agent.
C4_RoutingOnResume ==
    (probe.fn = "check_approval_outcome" /\ Last(probe.messages).type = "human") =>
        LET text == Last(probe.messages).content
        IN probe.result = IF Len(text) >= 1 /\ text[1] = "<SYSTEM:" THEN END ELSE "agent"

C4_Witness ==
    /\ probe.fn = "check_approval_outcome"
    /\ Last(probe.messages) = HumanMessage(SYSTEM_DONE)
    /\ probe.result = END

\* The ToolDispatch node appends, in this step, a successful result of
\* execute_postgres_query to the log of thread t.
AppendsExecuteSuccess(t) ==
    /\ pc = "stream"
    /\ req.thread = t
    /\ "tools" \in next[t]
    /\ \E i \in (Len(log[t]) + 1)..Len(log'[t]) :
          /\ log'[t][i].type = "tool"
          /\ log'[t][i].name = "execute_postgres_query"
          /\ log'[t][i].content \in {QUERY_ROWS, QUERY_EMPTY}

\* C5: once ToolDispatch has appended a successful execute_postgres_query
\* result, the thread's next committed state is Terminal (no pending node, so
\* no further Agent invocation in that run), for every AgentMessage that
\* requested the tool, whatever its other tool requests and their order.
C5_ExecuteThenTerminal ==
    [][\A t \in Threads : AppendsExecuteSuccess(t) => next'[t] = {}]_vars

\* C6: with auto_execute off, a query reaches the database only through an
\* approve decision on a thread whose pending node is HumanApproval.
C6_OnlyApprovedQueriesRun ==
    \A e \in dbcalls : ~e.auto => (e.via = "approve" /\ e.waiting)

\* C7: each proposed action is executed at most once: a successful local
\* execution is never repeated for the same proposal, it is made only on a
\* thread waiting at HumanApproval, and when the approve call returns the
\* thread's pending node is cleared (so a further approve is refused).
C7_ExecutedAtMostOnce ==
    /\ []((pc = "idle" /\ resp.kind = "ok" /\ startswith(resp.response, "**Execution Result**:"))
            => next[resp.thread] = {})
    /\ [][\A e \in dbcalls' :
             e.via \in {"approve", "auto"} =>
                /\ e.waiting
                /\ e.ok => <<e.thread, e.idx>> \notin executed]_vars

C7_Witness ==
    /\ pc = "idle"
    /\ resp.kind = "http400"
    /\ <<resp.thread, Len(log[resp.thread]) - 1>> \in executed

\* C8: every thread's log is append-only: each step leaves the earlier log a
\* prefix of the new one.
C8_LogAppendOnly ==
    [][\A t \in Threads : IsPrefix(log[t], log'[t])]_vars

C8_Witness ==
    \E t \in Threads :
        /\ pc = "idle"
        /\ Len(log[t]) >= 4
        /\ log[t][3].type = "human"

\* C9 (as claimed): in every committed checkpoint, pending HumanApproval
\* implies the last message is an AgentMessage holding a formatted query block
\* and no ToolRequest.
C9_PendingHasQueryBlock ==
    \A t \in Threads :
        IsWaiting(next[t]) =>
            /\ Last(log[t]).type = "ai"
            /\ has_sql_block(Last(log[t]).content)
            /\ Last(log[t]).tool_calls = <<>>

\* The checkpoint update_state has just written for a run about to be resumed.
AwaitingResume(t) ==
    pc = "stream" /\ req.thread = t /\ req.resuming /\ req.ticks = 0

\* C9 (amended): in every committed checkpoint other than the one update_state
\* writes just before a resume, pending HumanApproval implies the last message
\* is an AgentMessage with no ToolRequest (with or without a query block).
C9_PendingEndsInAgentMessage ==
    \A t \in Threads :
        (IsWaiting(next[t]) /\ ~AwaitingResume(t)) =>
            /\ Last(log[t]).type = "ai"
            /\ Last(log[t]).tool_calls = <<>>

C9_Witness ==
    \E t \in Threads :
        /\ pc = "idle"
        /\ IsWaiting(next[t])
        /\ Last(log[t]).type = "ai"
        /\ ~has_sql_block(Last(log[t]).content)

\* C10: every response says approval_required exactly when the thread's
\* pending node is HumanApproval at the return, and done only when the thread
\* has no pending node.
C10_StatusMatchesPending ==
    (pc = "idle" /\ resp.kind = "ok") =>
        /\ (resp.status = "approval_required") <=> IsWaiting(next[resp.thread])
        /\ (resp.status = "done") => next[resp.thread] = {}

\* A run resumed with feedback: chat on a waiting thread, or a reject.
FeedbackRun == pc = "stream" /\ req.resuming /\ req.then = "process_run"

\* The UserMessage a feedback resume writes for the request in flight.
FeedbackMessage ==
    [type |-> "human",
     content |-> <<"Rejected. Feedback: ">>
                    \o (IF req.text = <<>> THEN <<"Rejected.">> ELSE req.text),
     tool_calls |-> <<>>, name |-> None]

\* C11: a resume with ordinary feedback (reject, or chat on a waiting thread)
\* appends exactly one UserMessage carrying the feedback, then the
\* HumanApproval node routes to Agent, whose invocation has the feedback in
\* its history.
C11_FeedbackReentersAgent ==
    /\ []((FeedbackRun /\ req.ticks = 0) =>
            /\ Last(log[req.thread]) = FeedbackMessage
            /\ next[req.thread] = {"human_approval"})
    /\ []((FeedbackRun /\ req.ticks = 1) =>
            /\ Last(log[req.thread]) = FeedbackMessage
            /\ next[req.thread] = {"agent"})
    /\ [][\A t \in Threads :
            (pc = "idle" /\ pc' = "stream" /\ req'.thread = t /\ req'.resuming
                /\ req'.then = "process_run") =>
               /\ Len(log'[t]) = Len(log[t]) + 1
               /\ SubSeq(log'[t], 1, Len(log[t])) = log[t]]_vars

C11_Witness ==
    /\ FeedbackRun
    /\ req.ticks = 2
    /\ req.text = <<"<SYSTEM:", " stop>">>
    /\ Last(log[req.thread]).type = "ai"
    /\ log[req.thread][Len(log[req.thread]) - 1] = FeedbackMessage

\* A run resumed with the control message, after a local execution.
CloseOutRun == pc = "stream" /\ req.then \in {"approve_result", "auto_result"}

\* C12 as stated: a resume with a control-prefixed UserMessage ends the run
\* without an Agent invocation, leaves the prior AgentMessage unchanged, and
\* the answer reported to the caller is that prior AgentMessage.
C12_ReportsPriorAgentMessage ==
    [][(CloseOutRun /\ pc' = "idle") =>
          /\ log' = log
          /\ next'[req.thread] = {}
          /\ resp'.response = log[req.thread][Len(log[req.thread]) - 1].content]_vars

\* C12, amended: a resume with a control-prefixed UserMessage ends the run at
\* Terminal without an Agent invocation and leaves the log, with the prior
\* AgentMessage just before the control message, unchanged; the answer
\* reported to the caller is the result of the local execution with status
\* done.
C12_ControlResumeEndsRun ==
    /\ [](CloseOutRun =>
            LET l == log[req.thread] IN
            /\ startswith(Last(l).content, SYSTEM_PREFIX)
            /\ Last(l).type = "human"
            /\ l[Len(l) - 1].type = "ai"
            /\ next[req.thread] = IF req.ticks = 0 THEN {"human_approval"} ELSE {})
    /\ [][CloseOutRun =>
            /\ log' = log
            /\ pc' = "idle" =>
                 /\ next'[req.thread] = {}
                 /\ req.ticks = 1
                 /\ resp'.kind = "ok"
                 /\ resp'.status = "done"
                 /\ resp'.response \in
                       {<<"**Execution Result**:">> \o QUERY_ROWS,
                        <<"**Auto Execution Result**:">> \o QUERY_ROWS}]_vars

C12_Witness ==
    /\ pc = "idle"
    /\ resp.kind = "ok"
    /\ resp.op = "approval"
    /\ startswith(resp.response, "**Execution Result**:")
    /\ next[resp.thread] = {}
    /\ Len(log[resp.thread]) = 3
    /\ log[resp.thread][2] = AIMessage(<<"Hello">>, <<>>)
    /\ log[resp.thread][3] = HumanMessage(SYSTEM_DONE)

\* The step is the handling of a POST /approval for thread t, from its
\* arrival up to its return or to its call of graph.stream.
ApprovalArrives(t) ==
    /\ pc = "idle"
    /\ \/ resp'.op = "approval" /\ resp'.thread = t
       \/ req'.op = "approval" /\ req'.thread = t

\* C13: an approval (approve or reject) for a thread with no pending
\* HumanApproval interrupt, a thread id never seen included, is answered with
\* a client error; no log, no pending node changes and no query is executed.
C13_ApprovalNeedsPendingInterrupt ==
    [][\A t \in Threads :
         (ApprovalArrives(t) /\ "human_approval" \notin next[t]) =>
            /\ resp'.kind = "http400"
            /\ pc' = "idle"
            /\ log' = log
            /\ next' = next
            /\ executed' = executed
            /\ dbcalls' = {}]_vars

C13_Witness ==
    /\ pc = "idle"
    /\ resp.kind = "http400"
    /\ resp.op = "approval"
    /\ log[resp.thread] = <<>>
    /\ next[resp.thread] = {}
    /\ \E u \in Threads : next[u] = {"agent"}

\* The step appends one UserMessage to the log of thread t.
AppendsUserMessage(t) ==
    /\ Len(log'[t]) = Len(log[t]) + 1
    /\ Last(log'[t]).type = "human"

\* The step is the close-out of a successful local execution for thread t.
ClosesOut(t) ==
    /\ req'.thread = t
    /\ req'.then \in {"approve_result", "auto_result"}
    /\ \E c \in dbcalls' : c.thread = t /\ c.ok /\ c.via \in {"approve", "auto"}

RunStarts ==
    /\ pc' = "stream"
    /\ req'.ticks = 0
    /\ req'.then \in {"process_run", "approve_result"}
    /\ req' # req

StepThread == IF pc = "idle" THEN req'.thread ELSE req.thread

ToolsPending == pc = "stream" /\ next[req.thread] = {"tools"} /\ StepsLeft

\* The tool calls the tools node is about to run.
PendingCalls == Last(log[req.thread]).tool_calls

\* Position i of the pending tool calls names a tool outside the registry.
UnknownCall(i) == i \in 1..Len(PendingCalls) /\ PendingCalls[i] \notin tools

\* The tools step answers every unknown call with an error ToolResult named
\* after the call, and the run goes on.
UnknownCallsAnswered ==
    /\ pc' = "stream"
    /\ resp' = resp
    /\ Len(log'[req.thread]) = Len(log[req.thread]) + Len(PendingCalls)
    /\ \A i \in 1..Len(PendingCalls) :
         UnknownCall(i) =>
            log'[req.thread][Len(log[req.thread]) + i] =
               [type |-> "tool",
                content |-> <<"Error: ", PendingCalls[i], " is not a valid tool">>,
                tool_calls |-> <<>>, name |-> PendingCalls[i]]

\* C17 as stated: after a tool request for a name outside the registry the
\* dispatcher appends an error ToolResult, the run does not crash, and
\* routing returns to Agent.
C17_UnknownToolBackToAgent ==
    [][(ToolsPending /\ \E i \in 1..MaxToolCalls : UnknownCall(i)) =>
          /\ UnknownCallsAnswered
          /\ next'[req.thread] = {"agent"}]_vars

\* C17, amended: after a tool request for a name outside the registry the
\* dispatcher appends an error ToolResult, the run does not crash, and
\* routing returns to Agent, unless the last tool request of the same
\* AgentMessage is for execute_postgres_query: then the run ends at Terminal.
C17_UnknownToolAnswered ==
    [][(ToolsPending /\ \E i \in 1..MaxToolCalls : UnknownCall(i)) =>
          /\ UnknownCallsAnswered
          /\ next'[req.thread] =
                IF PendingCalls[Len(PendingCalls)] = "execute_postgres_query"
                THEN {} ELSE {"agent"}]_vars

C17_Witness ==
    /\ pc = "stream"
    /\ next[req.thread] = {"agent"}
    /\ Len(log[req.thread]) = 3
    /\ log[req.thread][2].tool_calls = <<"drop_table">>
    /\ log[req.thread][3].type = "tool"
    /\ log[req.thread][3].name = "drop_table"
    /\ log[req.thread][3].content = INVALID_TOOL

\* The error text a tool's except clause returns.
ErrorTextOf(name) ==
    IF name = "execute_postgres_query" THEN "Error executing query: "
    ELSE "Error loading skill: "

\* C18: a failure inside a tool body (load_skill or execute_postgres_query
\* raising internally) is captured as a ToolResult with the error text,
\* appended to the log at the position of its request; the tools step never
\* ends the run with an exception.
C18_ToolFailuresCaptured ==
    [][ToolsPending =>
          /\ pc' = "stream"
          /\ resp' = resp
          /\ Len(log'[req.thread]) = Len(log[req.thread]) + Len(PendingCalls)
          /\ SubSeq(log'[req.thread], 1, Len(log[req.thread])) = log[req.thread]
          /\ \A i \in 1..Len(PendingCalls) :
               LET m == log'[req.thread][Len(log[req.thread]) + i] IN
               /\ m.type = "tool"
               /\ m.name = PendingCalls[i]
               /\ req'.outcomes[i] = "raise" =>
                     m.content = <<ErrorTextOf(PendingCalls[i]), "e">>
               /\ req'.outcomes[i] \in {"ok", "empty"} =>
                     ~startswith(m.content, ErrorTextOf(PendingCalls[i]))]_vars

C18_Witness ==
    /\ pc = "stream"
    /\ req.outcomes = <<"raise", "raise">>
    /\ Len(log[req.thread]) = 4
    /\ log[req.thread][2].tool_calls = <<"load_skill", "execute_postgres_query">>
    /\ log[req.thread][3].content = <<"Error loading skill: ", "e">>
    /\ log[req.thread][4].content = <<"Error executing query: ", "e">>

\* The model invocation of the run in flight fails: the agent node was about
\* to run and the handler is left instead.
AgentInvocationFails ==
    /\ pc = "stream"
    /\ next[req.thread] = {"agent"}
    /\ pc' = "idle"

\* C19: a failure or timeout of the model invocation in the Agent node is
\* recovered locally: a failure message is appended to the thread's log and
\* committed, and the caller gets an answer instead of an unhandled fault.
C19_ModelFailureRecovered ==
    [][AgentInvocationFails =>
          /\ resp'.kind = "ok"
          /\ Len(log'[req.thread]) = Len(log[req.thread]) + 1
          /\ IsPrefix(log[req.thread], log'[req.thread])]_vars

\* C20: when a run fails before it reaches Terminal or the HumanApproval
\* interrupt, the thread's stored log and pending node are those of before
\* the call began: nothing appended during the failed call remains.
C20_FailedRunLeavesNoTrace ==
    [][(pc = "stream" /\ resp'.kind = "error") =>
          /\ log'[req.thread] = req.before.messages
          /\ next'[req.thread] = req.before.next]_vars

\* The step calls graph.stream with input None for thread t.
StreamsNone(t) ==
    /\ pc' = "stream"
    /\ req'.thread = t
    /\ req'.resuming
    /\ req'.ticks = 0
    /\ req' # req

\* C21: the engine is never run with no new message on a thread that has no
\* pending node: chat and approval call it with input None only while the
\* thread's pending node is HumanApproval (approval refuses otherwise, chat
\* sends its message as input), and a run with an input appends that input.
C21_ResumeOnlyWhenPending ==
    /\ []((pc = "stream" /\ req.resuming /\ req.ticks = 0) =>
             next[req.thread] = {"human_approval"})
    /\ [][\A t \in Threads :
            /\ StreamsNone(t) => next[t] = {"human_approval"}
            /\ (pc = "idle" /\ pc' = "stream" /\ req'.thread = t /\ ~req'.resuming) =>
                  /\ "human_approval" \notin next[t]
                  /\ Len(log'[t]) = Len(log[t]) + 1
                  /\ next'[t] = {"agent"}]_vars

C21_Witness ==
    /\ pc = "stream"
    /\ req.op = "approval"
    /\ req.then = "process_run"
    /\ req.resuming
    /\ req.ticks = 0
    /\ next[req.thread] = {"human_approval"}
    /\ \E u \in Threads : next[u] = {"agent"}

\* The step ends the run in flight, and not by a failure of the model
\* invocation.
RunStops ==
    /\ pc = "stream"
    /\ pc' = "idle"
    /\ ~(AgentInvocationFails /\ StepsLeft)

\* C22: every run started by chat or by a resume stops at Terminal (no
\* pending node) or at the HumanApproval interrupt, whatever sequence of
\* responses the model returns.
C22_RunStopsAtTerminalOrInterrupt ==
    [][RunStops =>
          /\ resp'.kind = "ok"
          /\ next'[req.thread] \in {{}, {"human_approval"}}]_vars

\* Every tool request of every AgentMessage of the log is followed by its
\* ToolResult (ToolNode appends the results right after the message, in the
\* order of the requests).
AllRequestsAnswered(l) ==
    \A i \in 1..Len(l) :
       \A j \in 1..Len(l[i].tool_calls) :
          /\ i + j <= Len(l)
          /\ l[i + j].type = "tool"
          /\ l[i + j].name = l[i].tool_calls[j]

\* C23: whenever the Agent node is invoked, every ToolRequest of every
\* earlier AgentMessage of the thread's log has its ToolResult in the log.
C23_AgentSeesAnsweredRequests ==
    CanRun("agent") => AllRequestsAnswered(log[req.thread])

\* C24: get_skill(name) returns None whenever the skill directory, its
\* description.txt or its content.md is missing, and otherwise a skill with
\* the requested name and its content loaded; every skill list_skills
\* lists that also has a content.md is loaded by get_skill under its listed
\* name.
C24_GetSkill ==
    /\ probe.fn = "get_skill" =>
          LET e == EntryOf(probe.fs, probe.name)
              missing == \/ e.kind # "dir"
                         \/ ~e.description.exists
                         \/ ~e.content.exists
          IN /\ missing <=> probe.result = {}
             /\ ~missing =>
                   /\ Cardinality(probe.result) = 1
                   /\ \A skill \in probe.result :
                         /\ skill.name = probe.name
                         /\ skill.content = strip(e.content.text)
                         /\ skill.description = strip(e.description.text)
    /\ probe.fn = "list_skills" =>
          \A listed \in probe.result :
             probe.fs[listed.name].content.exists =>
                \E skill \in get_skill(probe.fs, listed.name) :
                   /\ skill.name = listed.name
                   /\ skill.description = listed.description

C24_Witness ==
    /\ probe.fn = "list_skills"
    /\ Cardinality(probe.result) = 2
    /\ \E listed \in probe.result :
          /\ ~probe.fs[listed.name].content.exists
          /\ get_skill(probe.fs, listed.name) = {}
    /\ \E listed \in probe.result :
          /\ get_skill(probe.fs, listed.name) # {}
          /\ \A skill \in get_skill(probe.fs, listed.name) :
                skill.content = <<"CREATE TABLE">>

\* The step is the Agent node of the run in flight appending its message.
AgentStep ==
    /\ pc = "stream"
    /\ "agent" \in next[req.thread]
    /\ log'[req.thread] # log[req.thread]

\* C25: no reachable run takes the Agent -> Terminal transition: the Agent
\* node is entered only when the log ends in a UserMessage or in a ToolResult
\* that is not from execute_postgres_query, so an AgentMessage with no
\* ToolRequests is never preceded by a ToolResult from
\* execute_postgres_query and the run stops at HumanApproval.
C25_NoAgentToTerminal ==
    /\ [](\A t \in Threads :
            "agent" \in next[t] =>
               /\ log[t] # <<>>
               /\ \/ Last(log[t]).type = "human"
                  \/ Last(log[t]).type = "tool" /\ ~IsExecuteResult(Last(log[t])))
    /\ [][AgentStep =>
            LET before == log[req.thread]
                after == log'[req.thread]
            IN /\ Len(after) = Len(before) + 1
               /\ Last(after).type = "ai"
               /\ should_continue(after) # END
               /\ ~HasToolCalls(Last(after)) =>
                     /\ ~IsExecuteResult(Last(before))
                     /\ next'[req.thread] = {"human_approval"}
                     /\ Interrupted(req.thread)']_vars

C25_Witness ==
    /\ pc = "stream"
    /\ next[req.thread] = {"human_approval"}
    /\ Len(log[req.thread]) = 4
    /\ log[req.thread][3].type = "tool"
    /\ log[req.thread][3].name = LOAD_TOOL
    /\ log[req.thread][4].type = "ai"
    /\ ~HasToolCalls(log[req.thread][4])
    /\ \E u \in Threads : u # req.thread /\ log[u] = <<>>

\* The run in flight has just got the error text of execute_postgres_query
\* as its last ToolResult.
QueryFailedLast ==
    /\ pc = "stream"
    /\ log[req.thread] # <<>>
    /\ IsExecuteResult(Last(log[req.thread]))
    /\ Last(log[req.thread]).content = QUERY_ERROR

\* C26: routing after ToolDispatch does not depend on the query's success:
\* when execute_postgres_query returns an error text as the last ToolResult,
\* nothing is pending (Terminal), and the run ends with that ToolResult as
\* the log's last message, without the Agent node being invoked with it.
C26_FailedQueryEndsRun ==
    /\ [](QueryFailedLast => next[req.thread] = {})
    /\ [][QueryFailedLast =>
            /\ pc' = "idle"
            /\ log' = log
            /\ next' = next
            /\ resp'.kind = "ok"
            /\ resp'.status = "done"
            /\ resp'.response = QUERY_ERROR]_vars

C26_Witness ==
    /\ QueryFailedLast
    /\ req.ticks = 2
    /\ Len(log[req.thread]) = 4
    /\ log[req.thread][3].type = "tool"
    /\ log[req.thread][3].name = LOAD_TOOL

\* The step is a local execution of the proposed query (by approve or by
\* chat's auto-execute block) that fails.
LocalExecutionFails ==
    \E c \in dbcalls' : c.via \in {"approve", "auto"} /\ ~c.ok

EndsInProposal(l) == l # <<>> /\ Last(l).type = "ai" /\ ~HasToolCalls(Last(l))

\* The log ends in a UserMessage that starts with the control prefix.
EndsInControlMessage(l) ==
    l # <<>> /\ Last(l).type = "human" /\ startswith(Last(l).content, SYSTEM_PREFIX)

\* C28: between calls (no run in flight), the pending node of a thread is
\* HumanApproval if and only if its log is non-empty and ends in an
\* AgentMessage without ToolRequests; a thread that has run and has no
\* pending node (Terminal) ends in a ToolResult from execute_postgres_query
\* or in a control-prefixed UserMessage.
C28_PendingMatchesLog ==
    pc = "idle" =>
       \A t \in Threads :
          /\ next[t] = {"human_approval"} <=> EndsInProposal(log[t])
          /\ IsWaiting(next[t]) <=> next[t] = {"human_approval"}
          /\ (next[t] = {} /\ log[t] # <<>>) =>
                \/ IsExecuteResult(Last(log[t]))
                \/ EndsInControlMessage(log[t])

C28_Witness ==
    /\ pc = "idle"
    /\ resp.kind = "ok"
    /\ resp.status = "done"
    /\ \E t \in Threads :
          /\ next[t] = {}
          /\ Len(log[t]) = 3
          /\ EndsInControlMessage(log[t])
          /\ EndsInProposal(SubSeq(log[t], 1, 2))

\* The run that closes out a successful auto-execution.
AutoCloseOutRun == pc = "stream" /\ req.then = "auto_result"

\* The last call to return was a chat whose auto-execution succeeded.
AutoExecuted ==
    /\ pc = "idle"
    /\ resp.kind = "ok"
    /\ resp.op = "chat"
    /\ startswith(resp.response, "**Auto Execution Result**:")

\* C29: when chat is called with auto_execute and its run stops at
\* HumanApproval, the proposal is executed locally exactly once within the
\* call; on success the control message is appended and the run is resumed
\* to Terminal without an Agent invocation, nothing is pending when the call
\* returns, and the next chat on the thread is processed as fresh input, not
\* as rejection feedback.
C29_AutoExecuteClosesOut ==
    /\ [](pc = "auto_execute" =>
            /\ req.op = "chat" /\ req.auto
            /\ next[req.thread] = {"human_approval"}
            /\ EndsInProposal(log[req.thread]))
    /\ [](AutoExecuted => next[resp.thread] = {})
    /\ [][pc' = "auto_execute" =>
            /\ pc = "stream" /\ req.then = "process_run"
            /\ req.op = "chat" /\ req.auto /\ ~AutoCloseOutRun]_vars
    /\ [][pc = "auto_execute" =>
            /\ pc' # "auto_execute"
            /\ Cardinality(dbcalls') = 1
            /\ \A c \in dbcalls' :
                  /\ c.via = "auto"
                  /\ c.thread = req.thread
                  /\ c.idx = Len(log[req.thread])
                  /\ c.ok =>
                        /\ <<c.thread, c.idx>> \notin executed
                        /\ <<c.thread, c.idx>> \in executed'
                        /\ log'[req.thread]
                             = log[req.thread] \o <<HumanMessage(SYSTEM_DONE)>>
                        /\ AutoCloseOutRun']_vars
    /\ [][AutoCloseOutRun =>
            /\ ~AgentStep
            /\ log' = log
            /\ dbcalls' = {}
            /\ pc' # "auto_execute"
            /\ pc' = "idle" => AutoExecuted' /\ resp'.status = "done"]_vars
    /\ [][(AutoExecuted /\ pc' = "stream" /\ req'.op = "chat"
             /\ req'.thread = resp.thread) =>
            /\ ~req'.resuming
            /\ next'[resp.thread] = {"agent"}
            /\ log'[resp.thread] = log[resp.thread] \o <<HumanMessage(req'.text)>>]_vars

C29_Witness ==
    /\ AutoExecuted
    /\ next[resp.thread] = {}
    /\ Len(log[resp.thread]) = 3
    /\ EndsInControlMessage(log[resp.thread])
    /\ <<resp.thread, 2>> \in executed

\* The connections the callers inside a with-block hold.
Held == {probe.w[c].conn : c \in {d \in Callers : probe.w[d].pc = "body"}}

\* C30: every connection get_db_connection takes from the pool is given
\* back with putconn exactly once when its with-block exits, normally or
\* through an exception of the query: the connections in use are exactly
\* those held inside a with-block, putconn is never called for a connection
\* that is not in use, and when no caller is inside a with-block no
\* connection is checked out.
C30_ConnectionsReturned ==
    /\ [](/\ ~probe.pool.error
          /\ probe.pool.used = Held
          /\ probe.pool.idle \cap probe.pool.used = {}
          /\ \A c, d \in Callers :
                (c # d /\ probe.w[c].pc = "body" /\ probe.w[d].pc = "body")
                   => probe.w[c].conn # probe.w[d].conn
          /\ probe.puts + Cardinality(probe.pool.used) = probe.takes
          /\ (\A c \in Callers : probe.w[c].pc = "out") =>
                /\ probe.pool.used = {}
                /\ probe.puts = probe.takes)
    /\ [][\A c \in Callers :
            (probe.w[c].pc = "body" /\ probe'.w[c].pc = "out") =>
               /\ probe.w[c].conn \in probe.pool.used
               /\ probe.w[c].conn \notin probe'.pool.used
               /\ probe'.puts = probe.puts + 1]_vars

C30_Witness ==
    /\ \A c \in Callers : probe.w[c].pc = "out"
    /\ probe.pool.used = {}
    /\ probe.takes = MaxTakes
    /\ probe.puts = MaxTakes
    /\ \E c \in Callers : probe.w[c].last = "raise"
    /\ \E c \in Callers : probe.w[c].last = "ok"
    /\ \E c \in Callers : probe.w[c].last = "no connection"

\* C31: DatabasePool creates at most one connection pool per process:
\* concurrent first calls of get_pool never create two pools, and callers
\* all get the same pool.
C31_AtMostOnePool ==
    /\ probe.created <= 1
    /\ \A c, d \in Callers :
          (probe.w[c].got # NoPool /\ probe.w[d].got # NoPool)
             => probe.w[c].got = probe.w[d].got

====
